---- MODULE Spec2Model ----
(***************************************************************************)
(* Model of src/app.py: the office/seat store (Office and Seat tables),    *)
(* the administrative calls POST /api/offices and POST                     *)
(* /api/offices/<id>/seats, and the allocation call POST /allocate.        *)
(*                                                                         *)
(* Strings the code transforms (department names, counts, phones, seat     *)
(* numbers) are sequences of Unicode code points, so that strip(),         *)
(* isdigit(), int() and f"A{i}" are computed over every character Python   *)
(* knows and not assumed: "E" is <<69>>, " 7" is <<32, 55>>, the           *)
(* Arabic-Indic "one" is <<1633>>.  Office names are never transformed     *)
(* and stay plain strings.                                                 *)
(*                                                                         *)
(* Every call is split at its store operations.  An allocation call: the   *)
(* parsing of the form, the count query, the office query, each            *)
(* per-office fetch, each per-office commit and each notification.  An     *)
(* office creation: the commit of the office row, then the commit of its   *)
(* seats.  A seat provisioning: the query of the office's seats, then the  *)
(* commit of the new ones.  A thread that stops between two steps is a     *)
(* request that died there.                                                *)
(*                                                                         *)
(* Spec and SpecAll run one call at a time (SpecAll adds the rows the      *)
(* filter keeps without a department, without a seat asked for, or with a  *)
(* count written in other digits than 0-9).  SpecConc interleaves the     *)
(* steps of two allocation calls and of administrative calls; SpecAdmin    *)
(* interleaves the steps of two administrative calls.                      *)
(***************************************************************************)
EXTENDS Integers, Sequences, FiniteSets, TLC

VARIABLES offices, seats, calls, admins

vars == <<offices, seats, calls, admins>>

\* ------------------------------------------------------------------ bounds
MaxOffices == 2
MaxSeats == 2
MaxCapacity == 1
MaxRows == 2

\* The seats of a store all of whose seats belong to an office and whose
\* offices have different names: such a store may grow beyond MaxSeats.
MaxPlainSeats == 3

\* The offices and seats of the concurrent specification.
ConcOffices == 1
ConcSeats == 1

\* The two request threads that serve allocation calls in the concurrent
\* specification, and the single one of the sequential specifications.
Calls == {1, 2}
SeqCalls == {1}

\* The same for the request threads that serve administrative calls.
AdminCalls == {1, 2}
SeqAdminCalls == {1}

\* ----------------------------------------------------------------- strings
\* Python's None, which is no string: no code point is negative.
None == <<-1>>

\* The code points str.isdecimal() accepts, as runs first..last.  Every run
\* starts at a zero and counts up, ten by ten.
DecimalRanges ==
  <<<<48, 57>>, <<1632, 1641>>, <<1776, 1785>>, <<1984, 1993>>,
    <<2406, 2415>>, <<2534, 2543>>, <<2662, 2671>>, <<2790, 2799>>,
    <<2918, 2927>>, <<3046, 3055>>, <<3174, 3183>>, <<3302, 3311>>,
    <<3430, 3439>>, <<3558, 3567>>, <<3664, 3673>>, <<3792, 3801>>,
    <<3872, 3881>>, <<4160, 4169>>, <<4240, 4249>>, <<6112, 6121>>,
    <<6160, 6169>>, <<6470, 6479>>, <<6608, 6617>>, <<6784, 6793>>,
    <<6800, 6809>>, <<6992, 7001>>, <<7088, 7097>>, <<7232, 7241>>,
    <<7248, 7257>>, <<42528, 42537>>, <<43216, 43225>>, <<43264, 43273>>,
    <<43472, 43481>>, <<43504, 43513>>, <<43600, 43609>>, <<44016, 44025>>,
    <<65296, 65305>>, <<66720, 66729>>, <<68912, 68921>>, <<69734, 69743>>,
    <<69872, 69881>>, <<69942, 69951>>, <<70096, 70105>>, <<70384, 70393>>,
    <<70736, 70745>>, <<70864, 70873>>, <<71248, 71257>>, <<71360, 71369>>,
    <<71472, 71481>>, <<71904, 71913>>, <<72016, 72025>>, <<72784, 72793>>,
    <<73040, 73049>>, <<73120, 73129>>, <<92768, 92777>>, <<92864, 92873>>,
    <<93008, 93017>>, <<120782, 120831>>, <<123200, 123209>>,
    <<123632, 123641>>, <<125264, 125273>>, <<130032, 130041>>>>

\* The code points str.isdigit() accepts and str.isdecimal() does not:
\* superscripts, subscripts, circled and other typographic digits.
OtherDigitRanges ==
  <<<<178, 179>>, <<185, 185>>, <<4969, 4977>>, <<6618, 6618>>,
    <<8304, 8304>>, <<8308, 8313>>, <<8320, 8329>>, <<9312, 9320>>,
    <<9332, 9340>>, <<9352, 9360>>, <<9450, 9450>>, <<9461, 9469>>,
    <<9471, 9471>>, <<10102, 10110>>, <<10112, 10120>>, <<10122, 10130>>,
    <<68160, 68163>>, <<69216, 69224>>, <<69714, 69722>>,
    <<127232, 127242>>>>

\* The code points str.isspace() accepts, which str.strip() removes.
WhitespaceRanges ==
  <<<<9, 13>>, <<28, 32>>, <<133, 133>>, <<160, 160>>, <<5760, 5760>>,
    <<8192, 8202>>, <<8232, 8233>>, <<8239, 8239>>, <<8287, 8287>>,
    <<12288, 12288>>>>

InRanges(c, ranges) ==
  \E k \in 1..Len(ranges) : ranges[k][1] <= c /\ c <= ranges[k][2]

IsDecimalChar(c) == InRanges(c, DecimalRanges)

IsDigitChar(c) == IsDecimalChar(c) \/ InRanges(c, OtherDigitRanges)

IsSpace(c) == InRanges(c, WhitespaceRanges)

\* The value of a decimal character; no value for any other character.
DigitVal(c) ==
  LET k == CHOOSE k \in 1..Len(DecimalRanges) :
             DecimalRanges[k][1] <= c /\ c <= DecimalRanges[k][2]
  IN  (c - DecimalRanges[k][1]) % 10

\* str.isdigit(): non-empty and every character a digit.
isdigit(s) == Len(s) > 0 /\ \A i \in 1..Len(s) : IsDigitChar(s[i])

RECURSIVE lstrip(_)
lstrip(s) == IF Len(s) > 0 /\ IsSpace(Head(s)) THEN lstrip(Tail(s)) ELSE s

RECURSIVE rstrip(_)
rstrip(s) ==
  IF Len(s) > 0 /\ IsSpace(s[Len(s)]) THEN rstrip(SubSeq(s, 1, Len(s) - 1))
  ELSE s

\* str.strip()
strip(s) == rstrip(lstrip(s))

\* The most digits int() converts: sys.get_int_max_str_digits(), as the
\* interpreter sets it when the program does not.
MaxStrDigits == 4300

\* The whitespace int() skips around a number: that of str.isspace() but
\* for the four separators U+001C-U+001F.
IsIntSpace(c) == IsSpace(c) /\ c \notin 28..31

RECURSIVE IntLstrip(_)
IntLstrip(s) ==
  IF Len(s) > 0 /\ IsIntSpace(Head(s)) THEN IntLstrip(Tail(s)) ELSE s

RECURSIVE IntRstrip(_)
IntRstrip(s) ==
  IF Len(s) > 0 /\ IsIntSpace(s[Len(s)])
  THEN IntRstrip(SubSeq(s, 1, Len(s) - 1))
  ELSE s

\* What int(s) reads once the whitespace around s and one sign ("+" is the
\* code point 43, "-" is 45) are taken off.
IntBody(s) ==
  LET t == IntRstrip(IntLstrip(s))
  IN  IF Len(t) > 0 /\ Head(t) \in {43, 45} THEN Tail(t) ELSE t

\* The decimal digits of s, its underscores left out.
IntDigits(s) == SelectSeq(IntBody(s), IsDecimalChar)

\* int(s) raises ValueError: what it reads is empty, has a character that
\* is neither a decimal digit nor an underscore (the code point 95), has an
\* underscore that does not stand between two digits, or has more than
\* MaxStrDigits digits.
ValueError(s) ==
  LET u == IntBody(s)
  IN  \/ Len(u) = 0
      \/ \E i \in 1..Len(u) : ~(IsDecimalChar(u[i]) \/ u[i] = 95)
      \/ u[1] = 95
      \/ u[Len(u)] = 95
      \/ \E i \in 1..(Len(u) - 1) : u[i] = 95 /\ u[i + 1] = 95
      \/ Len(IntDigits(s)) > MaxStrDigits

\* The number a sequence of decimal digits writes.
RECURSIVE DigitsValue(_)
DigitsValue(digits) ==
  IF Len(digits) = 0 THEN 0
  ELSE 10 * DigitsValue(SubSeq(digits, 1, Len(digits) - 1))
         + DigitVal(digits[Len(digits)])

\* int(s) for a string on which it does not raise.
int(s) ==
  IF Len(IntLstrip(s)) > 0 /\ Head(IntLstrip(s)) = 45
  THEN 0 - DigitsValue(IntDigits(s))
  ELSE DigitsValue(IntDigits(s))

\* f"{i}" for i >= 0: the digits 0-9 are the code points 48-57.
RECURSIVE str(_)
str(i) ==
  IF i < 10 THEN <<48 + i>>
  ELSE str(i \div 10) \o <<48 + (i % 10)>>

\* f"A{i}": "A" is the code point 65.
SeatNumber(i) == <<65>> \o str(i)

\* int(s.seat_number[1:])
SeatIndex(seat_number) == int(Tail(seat_number))

Min(a, b) == IF a <= b THEN a ELSE b

Max(S) == CHOOSE x \in S : \A y \in S : y <= x

\* dict[k] = v
Put(f, k, v) == [x \in (DOMAIN f) \cup {k} |-> IF x = k THEN v ELSE f[x]]

EmptyDict == [x \in {} |-> 0]

\* ------------------------------------------------------------------- store
\* offices[i] is the Office row with id i (ids are handed out 1, 2, ... and
\* no row is ever deleted); seats[i] is the Seat row with id i.  The columns
\* location, capacity and occupant are left out: once their row is written
\* no modelled call reads or changes them.
NewOffice(name, capacity) == [name |-> name]

NewSeat(office_id, i) ==
  [office_id |-> office_id, seat_number |-> SeatNumber(i),
   status |-> "available", department |-> None, phone |-> None]

\* for i in range(first, first + n): db.session.add(Seat(...))
AddSeats(ss, office_id, first, n) ==
  ss \o [k \in 1..n |-> NewSeat(office_id, first + k - 1)]

\* Seat.query.filter_by(office_id=office_id).all()
SeatsOf(ss, office_id) == {i \in 1..Len(ss) : ss[i].office_id = office_id}

\* next_number = max(seat_numbers) + 1 if seat_numbers else 1
NextNumber(ss, office_id) ==
  LET seat_numbers == {SeatIndex(ss[i].seat_number) : i \in SeatsOf(ss, office_id)}
  IN  IF seat_numbers = {} THEN 1 ELSE Max(seat_numbers) + 1

\* CountAvailable with its status filter left out: a fault C1 must detect.
CountAllSeats(ss) == Len(ss)

\* Seat.query.filter_by(status='available').count()
CountAvailable(ss) == Cardinality({i \in 1..Len(ss) : ss[i].status = "available"})

\* AvailableIn with its status filter left out: a fault C4 must detect.
AllSeatsIn(ss, office_id) == {i \in 1..Len(ss) : ss[i].office_id = office_id}

\* Seat.query.filter_by(office_id=office.id, status='available')
AvailableIn(ss, office_id) ==
  {i \in 1..Len(ss) : ss[i].office_id = office_id /\ ss[i].status = "available"}

\* Office.query.order_by(Office.id).all(), as the list of office ids.
OfficesOrdered(offs) == [i \in 1..Len(offs) |-> i]

\* MarkOccupied as a conditional update, which skips the seats that are no
\* longer available: the guard whose absence C5 states.
MarkIfAvailable(ss, batch, department, phone) ==
  [i \in 1..Len(ss) |->
     IF i \in batch /\ ss[i].status = "available"
     THEN [ss[i] EXCEPT !.status = "occupied", !.department = department,
                        !.phone = phone]
     ELSE ss[i]]

\* seat.status = 'occupied'; seat.department = department; seat.phone = phone
\* for every seat of the batch, then db.session.commit().
MarkOccupied(ss, batch, department, phone) ==
  [i \in 1..Len(ss) |->
     IF i \in batch
     THEN [ss[i] EXCEPT !.status = "occupied", !.department = department,
                        !.phone = phone]
     ELSE ss[i]]

\* ---------------------------------------------------- administrative calls
\* admins[a] is the state of request thread a inside handle_offices or
\* handle_seats: its position pc ("office": the office row is committed and
\* its seats are not; "seats": the office's seats are read and the new ones
\* are not committed), the office it works on, the number n of seats it is
\* about to add and the number of the first of them.
IdleAdmin == [pc |-> "idle", office_id |-> 0, n |-> 0, next_number |-> 0]

\* No administrative call is in progress.
AdminQuiet == \A a \in AdminCalls : admins[a].pc = "idle"

\* The seats the administrative calls in progress are about to add.
RECURSIVE PendingSeats(_)
PendingSeats(A) ==
  IF A = {} THEN 0
  ELSE LET a == CHOOSE x \in A : TRUE
       IN  admins[a].n + PendingSeats(A \ {a})

\* The bounds under which administrative calls are started: the store has
\* fewer than max_offices offices; it has at most max_seats seats once the
\* calls in progress have added theirs and n more are added.
OfficeRoom(max_offices) == Len(offices) < max_offices

SeatRoom(max_seats, n) == Len(seats) + PendingSeats(AdminCalls) + n <= max_seats

\* Every seat of the store belongs to an office of the store, and no two
\* offices have the same name.
PlainStore ==
  /\ \A i \in 1..Len(seats) : seats[i].office_id <= Len(offices)
  /\ \A i \in 1..Len(offices), j \in 1..Len(offices) :
       i # j => offices[i].name # offices[j].name

\* The bound under which the sequential specifications start an office
\* creation: MaxSeats seats for any store, MaxPlainSeats for a plain store
\* that the new office leaves plain.
CreationRoom(name, capacity) ==
  /\ OfficeRoom(MaxOffices)
  /\ \/ SeatRoom(MaxSeats, capacity)
     \/ /\ PlainStore
        /\ \A i \in 1..Len(offices) : offices[i].name # name
        /\ SeatRoom(MaxPlainSeats, capacity)

\* The same for a seat provisioning.
ProvisioningRoom(office_id, count) ==
  \/ SeatRoom(MaxSeats, count)
  \/ /\ PlainStore
     /\ office_id <= Len(offices)
     /\ SeatRoom(MaxPlainSeats, count)

\* POST /api/offices, lines 292-299: the office row is added and committed.
handle_offices_commit_office(a, name, capacity) ==
  /\ admins[a].pc = "idle"
  /\ offices' = Append(offices, NewOffice(name, capacity))
  /\ admins' = [admins EXCEPT ![a] =
        [pc |-> "office", office_id |-> Len(offices) + 1, n |-> capacity,
         next_number |-> 1]]
  /\ UNCHANGED <<seats, calls>>

\* POST /api/offices, lines 302-310: seats A1..Acapacity of the new office
\* are added and committed.
handle_offices_commit_seats(a) ==
  /\ admins[a].pc = "office"
  /\ seats' = AddSeats(seats, admins[a].office_id, admins[a].next_number,
                       admins[a].n)
  /\ admins' = [admins EXCEPT ![a] = IdleAdmin]
  /\ UNCHANGED <<offices, calls>>

\* POST /api/offices/<office_id>/seats, lines 323-326: the office's seats are
\* read and next_number is one past the highest number among them.  The
\* office row is never looked up.
handle_seats_query(a, office_id, count) ==
  /\ admins[a].pc = "idle"
  /\ admins' = [admins EXCEPT ![a] =
        [pc |-> "seats", office_id |-> office_id, n |-> count,
         next_number |-> NextNumber(seats, office_id)]]
  /\ UNCHANGED <<offices, seats, calls>>

\* POST /api/offices/<office_id>/seats, lines 328-336: count seats numbered
\* from next_number are added and committed.
handle_seats_commit(a) ==
  /\ admins[a].pc = "seats"
  /\ seats' = AddSeats(seats, admins[a].office_id, admins[a].next_number,
                       admins[a].n)
  /\ admins' = [admins EXCEPT ![a] = IdleAdmin]
  /\ UNCHANGED <<offices, calls>>

\* ------------------------------------------------------------ request form
\* request.form.getlist(...) of the three fields.
Form(departments, counts, phones) ==
  [department_name |-> departments, employee_count |-> counts,
   phone_number |-> phones]

\* zip(departments, counts, phones) stops at the shortest list.
ZipLen(form) ==
  Min(Len(form.department_name),
      Min(Len(form.employee_count), Len(form.phone_number)))

\* if dept and count.isdigit() and phone
RowOk(dept, count, phone) == Len(dept) > 0 /\ isdigit(count) /\ Len(phone) > 0

\* int(count) raises for a row the filter lets through: the loop over the
\* rows, which no try encloses, ends there with the exception.
RowRaises(form) ==
  \E i \in 1..ZipLen(form) :
    /\ RowOk(form.department_name[i], form.employee_count[i],
             form.phone_number[i])
    /\ ValueError(form.employee_count[i])

\* The dept_data list built from rows i.. of a form no row of which raises.
RECURSIVE DeptDataFrom(_, _)
DeptDataFrom(form, i) ==
  IF i > ZipLen(form) THEN << >>
  ELSE LET dept == form.department_name[i]
           count == form.employee_count[i]
           phone == form.phone_number[i]
       IN  (IF RowOk(dept, count, phone)
            THEN <<[name |-> strip(dept), count |-> int(count),
                    phone |-> strip(phone)]>>
            ELSE << >>) \o DeptDataFrom(form, i + 1)

DeptData(form) == DeptDataFrom(form, 1)

\* sum(item['count'] for item in dept_data)
RECURSIVE SumCounts(_)
SumCounts(dd) == IF Len(dd) = 0 THEN 0 ELSE dd[1].count + SumCounts(Tail(dd))

\* --------------------------------------------------------- allocation call
\* calls[p] is the state of request thread p inside allocate_seats: its
\* position pc, its locals, and its response once it has returned.  granted
\* is bookkeeping of the model: the seats whose batches the call committed.
NoForm == Form(<< >>, << >>, << >>)

IdleCall ==
  [pc |-> "idle", form |-> NoForm, dept_data |-> << >>,
   total_requested |-> 0, total_available |-> 0, offices |-> << >>,
   d |-> 0, o |-> 0, allocated |-> 0, available_seats |-> {},
   allocation_report |-> EmptyDict, department_stats |-> EmptyDict,
   response |-> [code |-> 0], granted |-> {}]

\* No allocation call is in progress.
Quiet == \A p \in Calls : calls[p].pc = "idle"

\* return ..., code from inside the try: the call keeps its locals next to
\* its response, for the claims to refer to.
Return(c, response) == [c EXCEPT !.pc = "done", !.response = response]

\* return ..., code before the try: the call has written nothing and keeps
\* only its response.
ReturnEarly(response) == [IdleCall EXCEPT !.pc = "done", !.response = response]

\* An exception raised before the try, which no handler catches: the
\* framework answers 500 and names the exception.
Unhandled(exception) ==
  ReturnEarly([code |-> 500, error |-> "Internal Server Error",
               exception |-> exception])

\* Top of the loop over dept_data for department number d: allocated = 0,
\* allocation_report[department] = {}, department_stats[department] = {...};
\* then the loop over the offices starts (it is skipped when there is none).
EnterDept(c, d) ==
  LET dept == c.dept_data[d]
  IN  [c EXCEPT !.d = d, !.o = 1, !.allocated = 0,
                !.allocation_report = Put(@, dept.name, EmptyDict),
                !.department_stats =
                   Put(@, dept.name, [phone |-> dept.phone, seats |-> 0]),
                !.pc = IF Len(c.offices) = 0 THEN "notify" ELSE "fetch"]

\* The next iteration of "for office in offices", or the end of that loop.
NextOffice(c) ==
  IF c.o < Len(c.offices) THEN [c EXCEPT !.o = @ + 1, !.pc = "fetch"]
  ELSE [c EXCEPT !.pc = "notify"]

\* FetchLimit forgetting what the department already has, as
\* .limit(required) would: a fault C3 must detect.
FetchRequired(c) == c.dept_data[c.d].count

\* .limit(required - allocated)
FetchLimit(c) == c.dept_data[c.d].count - c.allocated

\* Rollback undoing the whole call, as one transaction would: the behaviour
\* C9 rules out.
RollbackAll(ss, c) ==
  [i \in 1..Len(ss) |->
     IF i \in c.granted
     THEN [ss[i] EXCEPT !.status = "available", !.department = None,
                        !.phone = None]
     ELSE ss[i]]

\* db.session.rollback(): the batch marked in the session and not yet
\* committed is dropped; what earlier commits wrote stays in the store.
Rollback(ss, c) == ss

\* The successful end of the call: total_allocated = sum of the requested
\* counts, and the report handed to the template.
Report(c) ==
  [code |-> 200, report |-> c.allocation_report,
   total_allocated |-> SumCounts(c.dept_data),
   department_stats |-> c.department_stats]

\* Lines 96-108 for a form whose rows are parsed into dept_data: the call
\* returns 400 when no row is left, and totals the counts otherwise.
Parsed(form, dept_data) ==
  IF Len(dept_data) = 0
  THEN ReturnEarly([code |-> 400,
                    error |-> "No valid allocation data submitted"])
  ELSE [IdleCall EXCEPT !.form = form, !.dept_data = dept_data,
                        !.total_requested = SumCounts(dept_data),
                        !.pc = "count"]

\* Lines 109-112 for the number of available seats the query returned: the
\* call returns 400 when they do not suffice.
CheckCapacity(c, total_available) ==
  IF total_available < c.total_requested
  THEN ReturnEarly([code |-> 400, error |-> "Not enough seats available",
                    required |-> c.total_requested,
                    available |-> total_available])
  ELSE [c EXCEPT !.total_available = total_available, !.pc = "offices"]

\* Lines 92-108: read the form, drop the rows that fail the filter, convert
\* the others and total their counts.  A row the filter lets through and
\* int() refuses ends the call with an unhandled ValueError.
ParseForm(form) ==
  IF RowRaises(form) THEN Unhandled("ValueError")
  ELSE Parsed(form, DeptData(form))

\* Lines 92-108 for a submitted form; parsed is ParseForm(form).
AllocateBegin(p, form, parsed) ==
  /\ calls[p].pc = "idle"
  /\ calls' = [calls EXCEPT ![p] = parsed]
  /\ UNCHANGED <<offices, seats, admins>>

\* Lines 109-112: count the available seats and refuse when they do not
\* suffice.
AllocateCount(p) ==
  /\ calls[p].pc = "count"
  /\ calls' = [calls EXCEPT ![p] = CheckCapacity(@, CountAvailable(seats))]
  /\ UNCHANGED <<offices, seats, admins>>

\* Line 117, and the entry into the loop for the first department.
AllocateListOffices(p) ==
  /\ calls[p].pc = "offices"
  /\ calls' = [calls EXCEPT ![p] =
        EnterDept([@ EXCEPT !.offices = OfficesOrdered(offices)], 1)]
  /\ UNCHANGED <<offices, seats, admins>>

\* The count query of line 109 or the office query of line 117 raises.
\* Both stand before the try of line 119: nothing is rolled back and the
\* exception is unhandled.  No seat has been written yet.
AllocateRaise(p) ==
  /\ calls[p].pc \in {"count", "offices"}
  /\ calls' = [calls EXCEPT ![p] = Unhandled("OperationalError")]
  /\ UNCHANGED <<offices, seats, admins>>

\* Lines 134-141: up to required - allocated available seats of the current
\* office, in no stated order; none fetched means the next office.
AllocateFetch(p) ==
  /\ calls[p].pc = "fetch"
  /\ LET c == calls[p]
         candidates == AvailableIn(seats, c.offices[c.o])
         n == Min(FetchLimit(c), Cardinality(candidates))
     IN  \E batch \in SUBSET candidates :
           /\ Cardinality(batch) = n
           /\ calls' = [calls EXCEPT ![p] =
                 IF n = 0 THEN NextOffice(c)
                 ELSE [c EXCEPT !.available_seats = batch, !.pc = "commit"]]
  /\ UNCHANGED <<offices, seats, admins>>

\* Lines 143-154: mark the batch, commit it, record the grant under the
\* office's name, and leave the office loop once the request is covered.
AllocateCommit(p) ==
  /\ calls[p].pc = "commit"
  /\ LET c == calls[p]
         dept == c.dept_data[c.d]
         office_name == offices[c.offices[c.o]].name
         num_allocated == Cardinality(c.available_seats)
         c2 == [c EXCEPT
                  !.allocation_report =
                     Put(@, dept.name, Put(@[dept.name], office_name, num_allocated)),
                  !.allocated = @ + num_allocated,
                  !.department_stats =
                     Put(@, dept.name,
                         [@[dept.name] EXCEPT !.seats = @ + num_allocated]),
                  !.granted = @ \cup c.available_seats,
                  !.available_seats = {}]
     IN  /\ seats' = MarkOccupied(seats, c.available_seats, dept.name, dept.phone)
         /\ calls' = [calls EXCEPT ![p] =
               IF c2.allocated >= dept.count THEN [c2 EXCEPT !.pc = "notify"]
               ELSE NextOffice(c2)]
  /\ UNCHANGED <<offices, admins>>

\* Lines 157-165: the notification of the current department.  Sent or
\* failed, it never fails the call, and its outcome goes only into
\* notification_status, which the report page shows and nothing reads: the
\* outcome is left out.  Then the next department, or lines 167-229: the
\* totals, the chart and the report page, when none of them raises.
AllocateNotify(p) ==
  /\ calls[p].pc = "notify"
  /\ LET c == calls[p]
     IN  calls' = [calls EXCEPT ![p] =
           IF c.d < Len(c.dept_data) THEN EnterDept(c, c.d + 1)
           ELSE Return(c, Report(c))]
  /\ UNCHANGED <<offices, seats, admins>>

\* The call is at a place inside the try where an operation can raise: a
\* fetch or a commit of the loop, or, after the last department, the chart
\* and the report page of lines 180-229 (the figure, the static directory,
\* the file, the template).
CanFail(c) ==
  \/ c.pc \in {"fetch", "commit"}
  \/ c.pc = "notify" /\ c.d = Len(c.dept_data)

\* Lines 230-232: an operation inside the try raises; the session is rolled
\* back and the call answers 500.
AllocateFail(p) ==
  /\ CanFail(calls[p])
  /\ seats' = Rollback(seats, calls[p])
  /\ calls' = [calls EXCEPT ![p] =
        Return([@ EXCEPT !.available_seats = {}],
               [code |-> 500, error |-> "Error processing allocation"])]
  /\ UNCHANGED <<offices, admins>>

\* The response has been sent and the request thread is free again.
AllocateReturn(p) ==
  /\ calls[p].pc = "done"
  /\ calls' = [calls EXCEPT ![p] = IdleCall]
  /\ UNCHANGED <<offices, seats, admins>>

\* ------------------------------------------------------------------ inputs
OfficeNames == {"HQ", "Lab"}

Row(dept, count, phone) == [dept |-> dept, count |-> count, phone |-> phone]

\* Rows that pass the filter and ask for a seat: "E"/"1"/"5", "E"/"2"/"5",
\* and " O"/"1"/"7 " with blanks around its name and after its phone.
PlainRows ==
  { Row(<<69>>, <<49>>, <<53>>),
    Row(<<69>>, <<50>>, <<53>>),
    Row(<<32, 79>>, <<49>>, <<55, 32>>) }

\* Rows the filter drops: an empty name (""/"1"/"5"), a signed count
\* ("O"/"-1"/"7"), a non-numeric count ("O"/"x"/"7"), an empty phone
\* ("O"/"1"/"").
BadRows ==
  { Row(<< >>, <<49>>, <<53>>),
    Row(<<79>>, <<45, 49>>, <<55>>),
    Row(<<79>>, <<120>>, <<55>>),
    Row(<<79>>, <<49>>, << >>) }

\* Rows the filter keeps although they name no department or ask for no
\* seat: a blank-only name (" "/"1"/"5"), a name that is one tab, a zero
\* count ("E"/"0"/"5").
OddRows ==
  { Row(<<32>>, <<49>>, <<53>>),
    Row(<<9>>, <<49>>, <<53>>),
    Row(<<69>>, <<48>>, <<53>>) }

\* Rows whose count isdigit() accepts and is no short string of 0-9: the
\* Arabic-Indic one (U+0661), which int() reads as 1; the superscript two
\* (U+00B2), which int() refuses; and MaxStrDigits + 1 zeros, which int()
\* refuses for their number.
DigitRows ==
  { Row(<<69>>, <<1633>>, <<53>>),
    Row(<<69>>, <<178>>, <<53>>),
    Row(<<69>>, [i \in 1..(MaxStrDigits + 1) |-> 48], <<53>>) }

FormOf(rows) ==
  Form([i \in 1..Len(rows) |-> rows[i].dept],
       [i \in 1..Len(rows) |-> rows[i].count],
       [i \in 1..Len(rows) |-> rows[i].phone])

RowSeqs(R) == UNION {[1..n -> R] : n \in 0..MaxRows}

\* The forms: up to MaxRows plain rows; each bad row alone, before a plain
\* row and after one; and one form whose lists differ in length.
Forms ==
  {FormOf(rows) : rows \in RowSeqs(PlainRows)}
    \cup {FormOf(<<bad>>) : bad \in BadRows}
    \cup {FormOf(<<bad, Row(<<69>>, <<50>>, <<53>>)>>) : bad \in BadRows}
    \cup {FormOf(<<Row(<<69>>, <<49>>, <<53>>), bad>>) : bad \in BadRows}
    \cup {Form(<<<<69>>, <<79>>>>, <<<<49>>>>, <<<<53>>>>)}

\* The forms above, and each odd row and each digit row alone, before and
\* after a plain row.
AllForms ==
  Forms
    \cup {FormOf(<<odd>>) : odd \in OddRows \cup DigitRows}
    \cup {FormOf(<<odd, plain>>) : odd \in OddRows \cup DigitRows,
                                   plain \in PlainRows}
    \cup {FormOf(<<plain, odd>>) : odd \in OddRows \cup DigitRows,
                                   plain \in PlainRows}

\* The forms of the concurrent specification: one well-formed row each.
ConcForms == {FormOf(<<row>>) : row \in PlainRows}

\* ParseForm for every form of the inputs, computed once.
ParsedForms == [form \in AllForms |-> ParseForm(form)]

\* ---------------------------------------------------------- specifications
Init ==
  /\ offices = << >>
  /\ seats = << >>
  /\ calls = [p \in Calls |-> IdleCall]
  /\ admins = [a \in AdminCalls |-> IdleAdmin]

\* One call at a time: an administrative call or an allocation call starts
\* only when no call is in progress.
\* The guard of AllocateBegin stands before the choice of the form as well,
\* so that a form is chosen only for a call that can start.
Next ==
  \/ \E a \in SeqAdminCalls, name \in OfficeNames, capacity \in 0..MaxCapacity :
       /\ Quiet /\ AdminQuiet /\ CreationRoom(name, capacity)
       /\ handle_offices_commit_office(a, name, capacity)
  \/ \E a \in SeqAdminCalls : handle_offices_commit_seats(a)
  \/ \E a \in SeqAdminCalls, office_id \in 1..MaxOffices, count \in 0..MaxCapacity :
       /\ Quiet /\ AdminQuiet /\ ProvisioningRoom(office_id, count)
       /\ handle_seats_query(a, office_id, count)
  \/ \E a \in SeqAdminCalls : handle_seats_commit(a)
  \/ \E p \in SeqCalls :
       /\ calls[p].pc = "idle" /\ AdminQuiet
       /\ \E form \in Forms : AllocateBegin(p, form, ParsedForms[form])
  \/ \E p \in SeqCalls : AllocateCount(p)
  \/ \E p \in SeqCalls : AllocateListOffices(p)
  \/ \E p \in SeqCalls : AllocateRaise(p)
  \/ \E p \in SeqCalls : AllocateFetch(p)
  \/ \E p \in SeqCalls : AllocateCommit(p)
  \/ \E p \in SeqCalls : AllocateNotify(p)
  \/ \E p \in SeqCalls : AllocateFail(p)
  \/ \E p \in SeqCalls : AllocateReturn(p)

Spec == Init /\ [][Next]_vars

\* One call at a time, the odd rows and the digit rows among the inputs.
NextAll ==
  \/ \E a \in SeqAdminCalls, name \in OfficeNames, capacity \in 0..MaxCapacity :
       /\ Quiet /\ AdminQuiet /\ CreationRoom(name, capacity)
       /\ handle_offices_commit_office(a, name, capacity)
  \/ \E a \in SeqAdminCalls : handle_offices_commit_seats(a)
  \/ \E a \in SeqAdminCalls, office_id \in 1..MaxOffices, count \in 0..MaxCapacity :
       /\ Quiet /\ AdminQuiet /\ ProvisioningRoom(office_id, count)
       /\ handle_seats_query(a, office_id, count)
  \/ \E a \in SeqAdminCalls : handle_seats_commit(a)
  \/ \E p \in SeqCalls :
       /\ calls[p].pc = "idle" /\ AdminQuiet
       /\ \E form \in AllForms : AllocateBegin(p, form, ParsedForms[form])
  \/ \E p \in SeqCalls : AllocateCount(p)
  \/ \E p \in SeqCalls : AllocateListOffices(p)
  \/ \E p \in SeqCalls : AllocateRaise(p)
  \/ \E p \in SeqCalls : AllocateFetch(p)
  \/ \E p \in SeqCalls : AllocateCommit(p)
  \/ \E p \in SeqCalls : AllocateNotify(p)
  \/ \E p \in SeqCalls : AllocateFail(p)
  \/ \E p \in SeqCalls : AllocateReturn(p)

SpecAll == Init /\ [][NextAll]_vars

\* Two request threads that each serve one allocation call, and one that
\* serves administrative calls; the store operations of all of them
\* interleave freely.
NextConc ==
  \/ \E a \in SeqAdminCalls, name \in OfficeNames, capacity \in 0..MaxCapacity :
       /\ OfficeRoom(ConcOffices) /\ SeatRoom(ConcSeats, capacity)
       /\ handle_offices_commit_office(a, name, capacity)
  \/ \E a \in SeqAdminCalls : handle_offices_commit_seats(a)
  \/ \E a \in SeqAdminCalls, office_id \in 1..ConcOffices, count \in 0..MaxCapacity :
       /\ SeatRoom(ConcSeats, count)
       /\ handle_seats_query(a, office_id, count)
  \/ \E a \in SeqAdminCalls : handle_seats_commit(a)
  \/ \E p \in Calls :
       /\ calls[p].pc = "idle"
       /\ \E form \in ConcForms : AllocateBegin(p, form, ParsedForms[form])
  \/ \E p \in Calls : AllocateCount(p)
  \/ \E p \in Calls : AllocateListOffices(p)
  \/ \E p \in Calls : AllocateRaise(p)
  \/ \E p \in Calls : AllocateFetch(p)
  \/ \E p \in Calls : AllocateCommit(p)
  \/ \E p \in Calls : AllocateNotify(p)
  \/ \E p \in Calls : AllocateFail(p)

SpecConc == Init /\ [][NextConc]_vars

\* Two request threads that serve administrative calls, whose store
\* operations interleave freely; no allocation call.
NextAdmin ==
  \/ \E a \in AdminCalls, name \in OfficeNames, capacity \in 0..MaxCapacity :
       /\ OfficeRoom(MaxOffices) /\ SeatRoom(MaxSeats, capacity)
       /\ handle_offices_commit_office(a, name, capacity)
  \/ \E a \in AdminCalls : handle_offices_commit_seats(a)
  \/ \E a \in AdminCalls, office_id \in 1..MaxOffices, count \in 0..MaxCapacity :
       /\ SeatRoom(MaxSeats, count)
       /\ handle_seats_query(a, office_id, count)
  \/ \E a \in AdminCalls : handle_seats_commit(a)

SpecAdmin == Init /\ [][NextAdmin]_vars

\* ------------------------------------------------------------------ claims
\* The sum of a dictionary's values.
RECURSIVE SumDict(_)
SumDict(f) ==
  IF DOMAIN f = {} THEN 0
  ELSE LET k == CHOOSE x \in DOMAIN f : TRUE
       IN  f[k] + SumDict([x \in (DOMAIN f) \ {k} |-> f[x]])

\* The sum over all departments and offices of a report's counts.
SumReport(report) == SumDict([dept \in DOMAIN report |-> SumDict(report[dept])])

\* The sum of g[i] for i in 1..n.
RECURSIVE SumTo(_, _)
SumTo(g, n) == IF n = 0 THEN 0 ELSE g[n] + SumTo(g, n - 1)

\* Row i of a form passes the filter as the code applies it: a non-empty
\* department, a count made of digits, a non-empty phone.
Passes(form, i) ==
  /\ form.department_name[i] # << >>
  /\ isdigit(form.employee_count[i])
  /\ form.phone_number[i] # << >>

\* The sum of the counts of the rows that pass, for a form whose passing
\* rows all have a count int() reads.
RequestedSum(form) ==
  SumTo([i \in 1..ZipLen(form) |->
           IF Passes(form, i) THEN int(form.employee_count[i]) ELSE 0],
        ZipLen(form))

\* RequestedSum over the forms of Spec, worked out once for each form.
RequestedOf == [form \in Forms |-> RequestedSum(form)]

\* RequestedSum(form), read from RequestedOf where it has the form.
Requested(form) ==
  IF form \in DOMAIN RequestedOf THEN RequestedOf[form] ELSE RequestedSum(form)

Available == {i \in 1..Len(seats) : seats[i].status = "available"}

Occupied == {i \in 1..Len(seats) : seats[i].status = "occupied"}

\* C1: a call that reaches the capacity check with valid counts summing to
\* more than the seats available at the check returns the capacity error
\* carrying exactly the requested and the available total, unless the count
\* query itself fails; and up to the check the call changes no seat.
C1_InsufficientRejected ==
  [][\A p \in Calls :
       LET c == calls[p]
           c2 == calls'[p]
       IN  /\ (c.pc \in {"idle", "count"} /\ c2 # c) => seats' = seats
           /\ (/\ c.pc = "count"
               /\ c2.pc # "count"
               /\ c2.response.code # 500
               /\ Requested(c.form) > Cardinality(Available))
              => /\ c2.pc = "done"
                 /\ c2.response.code = 400
                 /\ c2.response.error = "Not enough seats available"
                 /\ c2.response.required = Requested(c.form)
                 /\ c2.response.available = Cardinality(Available)]_vars

\* A call was refused for capacity while some seat was occupied and some
\* seat was available: required 2, available 1.
C1_Witness ==
  \E p \in Calls :
    /\ calls[p].pc = "done"
    /\ calls[p].response.code = 400
    /\ calls[p].response.error = "Not enough seats available"
    /\ calls[p].response.required = 2
    /\ calls[p].response.available = 1
    /\ Occupied # {}

\* The current department, office id and office name of a call in the loop.
CurDept(c) == c.dept_data[c.d]

CurOffice(c) == c.offices[c.o]

\* C3: first fit by office order.  Departments are taken in submission order
\* and offices in ascending id; a fetch grants min(seats available in the
\* office, required - allocated); a grant in an office is made only when no
\* office with a smaller id has an available seat; the commit records the
\* grant under the office's name and makes exactly the fetched seats
\* occupied for the department.
C3_FirstFit ==
  [][\A p \in Calls :
       LET c == calls[p]
           c2 == calls'[p]
       IN  /\ (c.pc = "offices" /\ c2.pc \notin {"offices", "done"})
                => /\ c2.offices = [i \in 1..Len(offices) |-> i]
                   /\ c2.d = 1
           /\ (c.pc \in {"fetch", "commit", "notify"} /\ c2.pc # "done")
                => \/ c2.d = c.d /\ c2.o \in {c.o, c.o + 1}
                   \/ c2.d = c.d + 1 /\ c2.o = 1
           /\ (c.pc = "fetch" /\ c2.pc # "done")
                => LET here == {i \in Available : seats[i].office_id = CurOffice(c)}
                       n == Min(Cardinality(here), CurDept(c).count - c.allocated)
                   IN  /\ Cardinality(c2.available_seats) = n
                       /\ c2.available_seats \subseteq here
                       /\ c2.allocation_report = c.allocation_report
                       /\ n > 0 => \A i \in Available :
                                     seats[i].office_id \in 1..Len(offices)
                                       => seats[i].office_id >= CurOffice(c)
           /\ (c.pc = "commit" /\ c2.pc # "done")
                => /\ c2.allocation_report[CurDept(c).name][offices[CurOffice(c)].name]
                        = Cardinality(c.available_seats)
                   /\ c2.allocated = c.allocated + Cardinality(c.available_seats)
                   /\ \A i \in 1..Len(seats) :
                        IF i \in c.available_seats
                        THEN /\ seats'[i].status = "occupied"
                             /\ seats'[i].department = CurDept(c).name
                        ELSE seats'[i] = seats[i]]_vars

\* The worked example at a smaller size: HQ with one available seat, Lab
\* with two, and a request for 2 by "E" give {E: {HQ: 1, Lab: 1}}: the
\* later office is granted in part, what the department still required, and
\* keeps an available seat; the two granted seats are occupied by "E".
C3_Witness ==
  \E p \in Calls :
    /\ calls[p].pc = "done"
    /\ calls[p].response.code = 200
    /\ calls[p].response.report = (<<69>> :> ("HQ" :> 1 @@ "Lab" :> 1))
    /\ Len(offices) = 2
    /\ offices[1].name = "HQ" /\ offices[2].name = "Lab"
    /\ Cardinality(SeatsOf(seats, 1)) = 1
    /\ Cardinality(SeatsOf(seats, 2)) = 2
    /\ Cardinality(calls[p].granted) = 2
    /\ \A i \in calls[p].granted :
         seats[i].status = "occupied" /\ seats[i].department = <<69>>
    /\ \E i \in SeatsOf(seats, 2) :
         Available = {i} /\ seats[i].department = None

\* C4: a seat committed as occupied is returned by no later fetch, of the
\* same call or of a later one, and is never written again.
C4_OccupiedNotRefetched ==
  [][/\ \A i \in 1..Len(seats) :
          seats[i].status = "occupied" => seats'[i] = seats[i]
     /\ \A p \in Calls :
          calls'[p].available_seats # calls[p].available_seats
            => \A i \in calls'[p].available_seats : seats[i].status = "available"]_vars

\* A call has fetched a batch in an office where an earlier call left a seat
\* occupied.
C4_Witness ==
  \E p \in Calls :
    /\ calls[p].pc = "commit"
    /\ calls[p].available_seats # {}
    /\ \E i \in Occupied :
         /\ seats[i].office_id = CurOffice(calls[p])
         /\ i \notin calls[p].granted

\* C5: under interleaving the commit is blind.  Every seat of the fetched
\* batch is written as occupied for the committing call's department and
\* counted in its report, also when another call committed the same seat
\* after the fetch; so one seat can be granted twice.
C5_BlindCommit ==
  [][\A p \in Calls :
       LET c == calls[p]
           c2 == calls'[p]
       IN  (c.pc = "commit" /\ c2.pc \in {"fetch", "notify"})
             => /\ \A i \in c.available_seats :
                     /\ seats'[i].status = "occupied"
                     /\ seats'[i].department = CurDept(c).name
                     /\ seats'[i].phone = CurDept(c).phone
                /\ c2.granted = c.granted \cup c.available_seats
                /\ c2.department_stats[CurDept(c).name].seats
                     = c.department_stats[CurDept(c).name].seats
                         + Cardinality(c.available_seats)]_vars

\* Two calls have both succeeded, for different departments, with one seat
\* in both their grants, and their reports together count more seats than
\* are occupied.
C5_Witness ==
  \E p \in Calls, q \in Calls :
    /\ p # q
    /\ calls[p].pc = "done" /\ calls[q].pc = "done"
    /\ calls[p].response.code = 200 /\ calls[q].response.code = 200
    /\ calls[p].dept_data[1].name # calls[q].dept_data[1].name
    /\ calls[p].granted \cap calls[q].granted # {}
    /\ SumReport(calls[p].response.report) + SumReport(calls[q].response.report)
         > Cardinality(Occupied)

\* C9: occupancy is committed office by office.  A commit writes only the
\* batch of the current office; a call that leaves the loop from a fetch or
\* a commit has failed; and a failure inside the try answers the processing
\* error and leaves the store as the earlier commits made it, every seat
\* the call has committed still occupied.
C9_PerOfficeCommit ==
  [][\A p \in Calls :
       LET c == calls[p]
           c2 == calls'[p]
       IN  /\ (c.pc = "commit" /\ c2.pc # "done")
                => /\ \A i \in c.available_seats : seats[i].office_id = CurOffice(c)
                   /\ \A i \in 1..Len(seats) :
                        i \notin c.available_seats => seats'[i] = seats[i]
           /\ (c.pc \in {"fetch", "commit"} /\ c2.pc = "done")
                => c2.response.code = 500
           /\ (c.pc \in {"fetch", "commit", "notify"} /\ c2.pc = "done"
                 /\ c2.response.code = 500)
                => /\ c2.response.error = "Error processing allocation"
                   /\ seats' = seats
                   /\ c2.granted = c.granted
                   /\ \A i \in c.granted : seats'[i].status = "occupied"]_vars

\* A call of two departments has failed in the second one's scan: the first
\* department keeps its seat, the second has none.
C9_Witness ==
  \E p \in Calls :
    /\ calls[p].pc = "done"
    /\ calls[p].response.code = 500
    /\ calls[p].d = 2
    /\ calls[p].granted # {}
    /\ \A i \in calls[p].granted :
         seats[i].status = "occupied"
           /\ seats[i].department = calls[p].dept_data[1].name
    /\ calls[p].department_stats[calls[p].dept_data[2].name].seats = 0
    /\ calls[p].dept_data[2].count > 0

\* C2: a call that has valid requests summing to at most the seats available
\* at the check, and meets no failure, succeeds with a report whose counts
\* sum to the sum of the requested counts.
C2_ReportSumsToRequested ==
  \A p \in Calls :
    LET c == calls[p]
    IN  (/\ c.pc = "done"
         /\ Len(c.dept_data) > 0
         /\ c.total_requested <= c.total_available
         /\ c.response.code # 500)
        => /\ c.response.code = 200
           /\ SumReport(c.response.report) = Requested(c.form)

\* Row i of a form is well-formed as the specification words it: a non-empty
\* department, a numeric count of at least 1, a non-empty phone.
WellFormed(form, i) ==
  /\ form.department_name[i] # << >>
  /\ isdigit(form.employee_count[i])
  /\ ~ValueError(form.employee_count[i])
  /\ int(form.employee_count[i]) >= 1
  /\ form.phone_number[i] # << >>

\* C6: only well-formed rows are processed: the rows kept in dept_data are
\* the well-formed ones, total_requested is the sum of their counts, and
\* only their departments get an entry in the allocation report.
C6_MalformedRowsExcluded ==
  \A p \in Calls :
    LET c == calls[p]
        good == {i \in 1..ZipLen(c.form) : WellFormed(c.form, i)}
    IN  c.pc # "idle"
        => /\ Len(c.dept_data) = Cardinality(good)
           /\ c.total_requested
                = SumTo([i \in 1..ZipLen(c.form) |->
                           IF i \in good THEN int(c.form.employee_count[i]) ELSE 0],
                        ZipLen(c.form))
           /\ DOMAIN c.allocation_report
                \subseteq {strip(c.form.department_name[i]) : i \in good}

\* C7: every occupied seat carries a non-empty department name.
C7_OccupiedHasDepartment ==
  \A i \in 1..Len(seats) :
    seats[i].status = "occupied"
      => seats[i].department # None /\ Len(seats[i].department) > 0

\* C8: no two seats of one office have the same seat number.
C8_SeatNumbersUnique ==
  \A i \in 1..Len(seats), j \in 1..Len(seats) :
    (i # j /\ seats[i].office_id = seats[j].office_id)
      => seats[i].seat_number # seats[j].seat_number

\* C10: a call that ran alone and succeeded reports as total_allocated the
\* number of seats it changed from available to occupied, and every
\* department's seat count in department_stats is its requested count.
C10_TotalAllocatedIsGranted ==
  \A p \in Calls :
    LET c == calls[p]
    IN  (c.pc = "done" /\ c.response.code = 200)
        => /\ c.response.total_allocated = Cardinality(c.granted)
           /\ \A i \in 1..Len(c.dept_data) :
                c.response.department_stats[c.dept_data[i].name].seats
                  = c.dept_data[i].count

====
